---- MODULE Spec2Model ----
(***************************************************************************)
(* Model of apps/mofa-fm/src/system_monitor.rs: a process-wide OnceLock    *)
(* holding two AtomicU32 gauges, one background sampling thread that       *)
(* scales the probe's readings with IEEE-754 arithmetic and stores them,   *)
(* and two lock-free getters.                                              *)
(***************************************************************************)
EXTENDS Integers, Sequences, FiniteSets, TLC

(***************************************************************************)
(* Unsigned integers of arbitrary width, as little-endian sequences of     *)
(* 15-bit limbs without leading zero limbs (zero is the empty sequence).   *)
(* They carry the u64 byte counts of the probe and the 24-bit and 53-bit   *)
(* significands of f32 and f64.                                            *)
(***************************************************************************)
LimbBits == 15

Limb == 2 ^ LimbBits

RECURSIVE BigNorm(_)
BigNorm(a) ==
    IF Len(a) = 0 THEN a
    ELSE IF a[Len(a)] = 0 THEN BigNorm(SubSeq(a, 1, Len(a) - 1))
    ELSE a

RECURSIVE BigFromInt(_)
BigFromInt(n) ==
    IF n = 0 THEN << >>
    ELSE << n % Limb >> \o BigFromInt(n \div Limb)

RECURSIVE BigToInt(_)
BigToInt(a) ==
    IF Len(a) = 0 THEN 0
    ELSE a[1] + Limb * BigToInt(Tail(a))

BigLimb(a, i) == IF i >= 1 /\ i <= Len(a) THEN a[i] ELSE 0

RECURSIVE BigCmpFrom(_, _, _)
BigCmpFrom(a, b, i) ==
    IF i = 0 THEN 0
    ELSE IF BigLimb(a, i) > BigLimb(b, i) THEN 1
    ELSE IF BigLimb(a, i) < BigLimb(b, i) THEN -1
    ELSE BigCmpFrom(a, b, i - 1)

BigCmp(a, b) ==
    BigCmpFrom(a, b, IF Len(a) > Len(b) THEN Len(a) ELSE Len(b))

RECURSIVE BigAddFrom(_, _, _, _)
BigAddFrom(a, b, i, carry) ==
    IF i > Len(a) /\ i > Len(b)
    THEN (IF carry = 0 THEN << >> ELSE << carry >>)
    ELSE LET s == BigLimb(a, i) + BigLimb(b, i) + carry
         IN  << s % Limb >> \o BigAddFrom(a, b, i + 1, s \div Limb)

BigAdd(a, b) == BigNorm(BigAddFrom(a, b, 1, 0))

RECURSIVE BigSubFrom(_, _, _, _)
BigSubFrom(a, b, i, borrow) ==
    IF i > Len(a) THEN << >>
    ELSE LET d == BigLimb(a, i) - BigLimb(b, i) - borrow
         IN  IF d < 0
             THEN << d + Limb >> \o BigSubFrom(a, b, i + 1, 1)
             ELSE << d >> \o BigSubFrom(a, b, i + 1, 0)

\* a - b for a >= b
BigSub(a, b) == BigNorm(BigSubFrom(a, b, 1, 0))

RECURSIVE BigMulSmallFrom(_, _, _, _)
BigMulSmallFrom(a, k, i, carry) ==
    IF i > Len(a) THEN BigFromInt(carry)
    ELSE LET s == a[i] * k + carry
         IN  << s % Limb >> \o BigMulSmallFrom(a, k, i + 1, s \div Limb)

\* a * k for 0 <= k < 2^16
BigMulSmall(a, k) == BigNorm(BigMulSmallFrom(a, k, 1, 0))

BigShlLimbs(a, n) ==
    IF Len(a) = 0 THEN a ELSE [i \in 1..n |-> 0] \o a

\* a * 2^n
BigShl(a, n) ==
    BigShlLimbs(BigMulSmall(a, 2 ^ (n % LimbBits)), n \div LimbBits)

\* floor(a / 2^n)
BigShr(a, n) ==
    LET d == n \div LimbBits
        r == n % LimbBits
        w == IF Len(a) > d THEN Len(a) - d ELSE 0
    IN  BigNorm([i \in 1..w |->
                   (BigLimb(a, i + d) \div 2 ^ r)
                   + (BigLimb(a, i + d + 1) % 2 ^ r) * 2 ^ (LimbBits - r)])

RECURSIVE IntBitLen(_)
IntBitLen(n) == IF n = 0 THEN 0 ELSE 1 + IntBitLen(n \div 2)

BigBitLen(a) ==
    IF Len(a) = 0 THEN 0
    ELSE LimbBits * (Len(a) - 1) + IntBitLen(a[Len(a)])

\* bit i of a, bit 0 being the least significant
BigBit(a, i) ==
    (BigLimb(a, (i \div LimbBits) + 1) \div 2 ^ (i % LimbBits)) % 2

\* a mod 2^n
BigLow(a, n) == BigSub(a, BigShl(BigShr(a, n), n))

RECURSIVE BigMulFrom(_, _, _)
BigMulFrom(a, b, i) ==
    IF i > Len(b) THEN << >>
    ELSE BigAdd(BigShlLimbs(BigMulSmall(a, b[i]), i - 1),
                BigMulFrom(a, b, i + 1))

BigMul(a, b) == BigMulFrom(a, b, 1)

\* One step of binary long division by b > 0: the pair <<quotient, remainder>>
\* qr extended by the next lower bit of the dividend.
BigDivStep(b, qr, bit) ==
    LET r2 == BigAdd(BigMulSmall(qr[2], 2), BigFromInt(bit))
    IN  IF BigCmp(r2, b) >= 0
        THEN << BigAdd(BigMulSmall(qr[1], 2), << 1 >>), BigSub(r2, b) >>
        ELSE << BigMulSmall(qr[1], 2), r2 >>

\* Long division over bits hi down to lo of the dividend a, halving the range
RECURSIVE BigDivModBits(_, _, _, _, _)
BigDivModBits(a, b, hi, lo, qr) ==
    IF hi < lo THEN qr
    ELSE IF hi = lo THEN BigDivStep(b, qr, BigBit(a, hi))
    ELSE LET mid == (hi + lo + 1) \div 2
             upper == BigDivModBits(a, b, hi, mid, qr)
         IN  IF Len(upper) = 2
             THEN BigDivModBits(a, b, mid - 1, lo, upper)
             ELSE upper

\* Short division by a single limb d > 0, from limb i down to limb 1
RECURSIVE BigDivLimbFrom(_, _, _, _)
BigDivLimbFrom(a, d, i, r) ==
    IF i = 0 THEN << << >>, BigFromInt(r) >>
    ELSE LET cur == r * Limb + a[i]
             low == BigDivLimbFrom(a, d, i - 1, cur % d)
         IN  << Append(low[1], cur \div d), low[2] >>

\* The pair <<quotient, remainder>> of a by b > 0.  The leading
\* BigBitLen(b) - 1 bits of a are below b and go to the remainder at once.
BigDivMod(a, b) ==
    IF Len(b) = 1
    THEN LET qr == BigDivLimbFrom(a, b[1], Len(a), 0)
         IN  << BigNorm(qr[1]), qr[2] >>
    ELSE LET skip == BigBitLen(b) - 1
             rest == BigBitLen(a) - skip
         IN  IF rest <= 0 THEN << << >>, a >>
             ELSE BigDivModBits(a, b, rest - 1, 0,
                                << << >>, BigShr(a, rest) >>)

\* the number of zero bits below the lowest set bit of a # 0
RECURSIVE BigTrailingZeros(_)
BigTrailingZeros(a) ==
    IF a[1] = 0 THEN LimbBits + BigTrailingZeros(Tail(a))
    ELSE IF a[1] % 2 = 0 THEN 1 + BigTrailingZeros(<< a[1] \div 2 >>)
    ELSE 0

(***************************************************************************)
(* IEEE-754 binary floating point with a significand of p bits (24 for     *)
(* f32, 53 for f64), round-to-nearest-even.  A finite value is             *)
(* (-1)^neg * m * 2^e with m = 0 or 2^(p-1) <= m < 2^p.  The exponent      *)
(* range of the formats is not reached by the operands used here, and      *)
(* infinities are left out.                                                *)
(***************************************************************************)
F32Bits == 24

F64Bits == 53

FloatZero == [nan |-> FALSE, neg |-> FALSE, m |-> << >>, e |-> 0]

FloatNaN == [nan |-> TRUE, neg |-> FALSE, m |-> << >>, e |-> 0]

\* The p-bit float nearest to n * 2^e, or to a value just above it when
\* sticky (then n has more than p bits); ties go to the even significand.
FloatRound(p, n, sticky, e, neg) ==
    LET len == BigBitLen(n)
    IN  IF len = 0 THEN FloatZero
        ELSE IF len <= p
        THEN [nan |-> FALSE, neg |-> neg,
              m |-> BigShl(n, p - len), e |-> e - (p - len)]
        ELSE LET s == len - p
                 kept == BigShr(n, s)
                 c == BigCmp(BigLow(n, s), BigShl(<< 1 >>, s - 1))
                 up == c > 0 \/ (c = 0 /\ (sticky \/ BigBit(kept, 0) = 1))
                 m1 == IF up THEN BigAdd(kept, << 1 >>) ELSE kept
             IN  IF BigBitLen(m1) > p
                 THEN [nan |-> FALSE, neg |-> neg,
                       m |-> BigShr(m1, 1), e |-> e + s + 1]
                 ELSE [nan |-> FALSE, neg |-> neg, m |-> m1, e |-> e + s]

\* `n as f32` / `n as f64` of an unsigned integer n
FloatFromBig(p, n) == FloatRound(p, n, FALSE, 0, FALSE)

\* The p-bit float nearest to (a / b) * 2^e for integers a >= 0, b > 0:
\* the powers of two in a and b go to the exponent, and the quotient is
\* taken to p + 2 bits with the remainder as the sticky bit.
FloatFromRatio(p, a, b, e, neg) ==
    IF Len(a) = 0 THEN FloatZero
    ELSE LET ta == BigTrailingZeros(a)
             tb == BigTrailingZeros(b)
             a1 == BigShr(a, ta)
             b1 == BigShr(b, tb)
             k == p + 2 + BigBitLen(b1) - BigBitLen(a1)
             num == IF k >= 0 THEN BigShl(a1, k) ELSE a1
             den == IF k >= 0 THEN b1 ELSE BigShl(b1, 0 - k)
             qr == BigDivMod(num, den)
         IN  FloatRound(p, qr[1], Len(qr[2]) > 0, e + ta - tb - k, neg)

\* a * b
FloatMul(p, a, b) ==
    IF a.nan \/ b.nan THEN FloatNaN
    ELSE FloatRound(p, BigMul(a.m, b.m), FALSE, a.e + b.e, a.neg # b.neg)

\* a / b for b # 0
FloatDiv(p, a, b) ==
    IF a.nan \/ b.nan THEN FloatNaN
    ELSE FloatFromRatio(p, a.m, b.m, a.e - b.e, a.neg # b.neg)

\* `x as u32`: truncation toward zero, NaN and negative values giving 0
\* (the saturation at u32::MAX lies beyond the operands used here)
FloatToU32(a) ==
    IF a.nan \/ a.neg \/ Len(a.m) = 0 THEN 0
    ELSE IF a.e >= 0 THEN BigToInt(BigShl(a.m, a.e))
    ELSE BigToInt(BigShr(a.m, 0 - a.e))

(***************************************************************************)
(* Bounds of the model                                                     *)
(***************************************************************************)
\* threads that call start_system_monitor()
NumCallers == 2

\* calls of start_system_monitor() begun in one run
MaxCalls == 3

\* thread::Builder::spawn failures in one run
MaxSpawnFailures == 1

Callers == 1..NumCallers

None == 0

(***************************************************************************)
(* Readings of the OS metrics probe                                        *)
(***************************************************************************)
\* the f32 nearest to the decimal reading k / 100 percent
F32Percent(k) == FloatFromRatio(F32Bits, BigFromInt(k), << 100 >>, 0, FALSE)

\* a byte count of g * 10^9 + r bytes
Bytes(g, r) ==
    BigAdd(BigMulSmall(BigMulSmall(BigMulSmall(BigFromInt(g), 1000), 1000),
                       1000),
           BigFromInt(r))

\* global_cpu_usage() readings: 45.67 % and 100.0 %
CpuSamples == { F32Percent(4567), F32Percent(10000) }

\* <<used_memory(), total_memory()>> readings: 4 GB of 8 GB, and an
\* unknown total
MemorySamples == { << Bytes(4, 0), Bytes(8, 0) >>, << Bytes(0, 5), << >> >> }

\* readings beside the common ones: 0 %, 0.53 %, 100.01 %, 150 %, NaN and
\* a negative reading
CpuSamplesWide ==
    CpuSamples \cup
    { FloatZero, F32Percent(53), F32Percent(10001), F32Percent(15000),
      FloatNaN, [F32Percent(250) EXCEPT !.neg = TRUE] }

\* 3 of 10000 bytes, 1 of 3 bytes, all of 16 GB, nothing of nothing, and
\* more used than the total
MemorySamplesWide ==
    MemorySamples \cup
    { << Bytes(0, 3), Bytes(0, 10000) >>, << Bytes(0, 1), Bytes(0, 3) >>,
      << Bytes(16, 0), Bytes(16, 0) >>, << << >>, << >> >>,
      << Bytes(9, 0), Bytes(8, 0) >> }

(***************************************************************************)
(* State                                                                   *)
(***************************************************************************)
VARIABLES
    SYSTEM_MONITOR,   \* the OnceLock: [state, value], value an object or None
    heap,             \* the live SystemStats objects: id -> the two gauges
    next_id,          \* the next object to allocate
    callers,          \* per calling thread: [pc, stats]
    monitor,          \* the "system-monitor" thread: its pc, stats_clone,
                      \* sys and the last cpu_scaled and memory_pct
    threads_spawned,  \* threads thread::Builder::spawn has created
    spawn_failures,   \* spawns that failed
    calls,            \* calls of start_system_monitor() begun
    returned,         \* calls of start_system_monitor() that returned
    alive,            \* the process has not been ended by a panic
    ret               \* the last getter call: [fn, some, val, fresh], some
                      \* telling whether SYSTEM_MONITOR.get() was Some

vars == << SYSTEM_MONITOR, heap, next_id, callers, monitor, threads_spawned,
           spawn_failures, calls, returned, alive, ret >>

\* SystemStats::new()
SystemStats_new == [cpu_usage |-> 0, memory_usage |-> 0]

\* OnceLock::new()
OnceLock_new == [state |-> "INCOMPLETE", value |-> None]

\* OnceLock::get()
OnceLock_get == IF SYSTEM_MONITOR.state = "COMPLETE"
                THEN SYSTEM_MONITOR.value ELSE None

NoSys == [cpu |-> FloatZero, used |-> << >>, total |-> << >>]

\* no "system-monitor" thread yet
NoMonitor == [pc |-> "none", stats_clone |-> None, sys |-> NoSys,
              cpu_scaled |-> 0, memory_pct |-> 0]

Init ==
    /\ SYSTEM_MONITOR = OnceLock_new
    /\ heap = << >>
    /\ next_id = 1
    /\ callers = [t \in Callers |-> [pc |-> "idle", stats |-> None]]
    /\ monitor = NoMonitor
    /\ threads_spawned = 0
    /\ spawn_failures = 0
    /\ calls = 0
    /\ returned = 0
    /\ alive = TRUE
    /\ ret = [fn |-> "none", some |-> FALSE, val |-> FloatZero,
              fresh |-> FALSE]

(***************************************************************************)
(* Scaling and the getters' conversion                                     *)
(***************************************************************************)
\* the literal 100.0 of type f32
F32_100 == FloatFromBig(F32Bits, << 100 >>)

\* the literal 10000.0 of type f64
F64_10000 == FloatFromBig(F64Bits, << 10000 >>)

\* cpu as u32, the scaling forgotten
cpu_unscaled(cpu) == FloatToU32(cpu)

\* (cpu * 100.0) as u32
cpu_scaled(cpu) == FloatToU32(FloatMul(F32Bits, cpu, F32_100))

\* the ratio scaled by 100.0 instead of 10000.0
memory_pct_percent(used_memory, total_memory) ==
    IF BigCmp(total_memory, << >>) > 0
    THEN FloatToU32(FloatMul(F64Bits,
                             FloatDiv(F64Bits,
                                      FloatFromBig(F64Bits, used_memory),
                                      FloatFromBig(F64Bits, total_memory)),
                             FloatFromBig(F64Bits, << 100 >>)))
    ELSE 0

\* an unknown total reported as a full memory
memory_pct_full(used_memory, total_memory) ==
    IF BigCmp(total_memory, << >>) > 0
    THEN FloatToU32(FloatMul(F64Bits,
                             FloatDiv(F64Bits,
                                      FloatFromBig(F64Bits, used_memory),
                                      FloatFromBig(F64Bits, total_memory)),
                             F64_10000))
    ELSE 10000

\* if total_memory > 0
\*   { (used_memory as f64 / total_memory as f64 * 10000.0) as u32 }
\* else { 0 }
memory_pct(used_memory, total_memory) ==
    IF BigCmp(total_memory, << >>) > 0
    THEN FloatToU32(FloatMul(F64Bits,
                             FloatDiv(F64Bits,
                                      FloatFromBig(F64Bits, used_memory),
                                      FloatFromBig(F64Bits, total_memory)),
                             F64_10000))
    ELSE 0

\* load(Ordering::Relaxed) as f64 / 10000.0
usage(gauge) ==
    FloatDiv(F64Bits, FloatFromBig(F64Bits, BigFromInt(gauge)), F64_10000)

\* a store that writes the upper bytes before the lowest one
TornStore(old, value) == ((value \div 256) * 256) + (old % 256)

\* AtomicU32::store(value, Ordering::Relaxed): the whole word at once
AtomicStore(old, value) == value

\* unwrap_or(1.0)
get_cpu_usage_or_one ==
    IF OnceLock_get = None THEN usage(10000)
    ELSE usage(heap[OnceLock_get].cpu_usage)

\* the CPU getter loading the memory gauge
get_cpu_usage_of_memory ==
    IF OnceLock_get = None THEN FloatZero
    ELSE usage(heap[OnceLock_get].memory_usage)

\* get_cpu_usage(): the value a call made in this state returns
get_cpu_usage ==
    IF OnceLock_get = None THEN FloatZero
    ELSE usage(heap[OnceLock_get].cpu_usage)

\* get_memory_usage(): the value a call made in this state returns
get_memory_usage ==
    IF OnceLock_get = None THEN FloatZero
    ELSE usage(heap[OnceLock_get].memory_usage)

(***************************************************************************)
(* start_system_monitor(), one step at a time                              *)
(***************************************************************************)
\* an initializer that sets the handle before it spawns the thread
BeginInitPublishing(t) ==
    /\ SYSTEM_MONITOR' = [state |-> "COMPLETE", value |-> next_id]
    /\ heap' = heap @@ (next_id :> SystemStats_new)
    /\ next_id' = next_id + 1
    /\ callers' = [callers EXCEPT ![t] = [pc |-> "spawn", stats |-> next_id]]
    /\ UNCHANGED returned

\* The initializer closure begins: the Once goes to RUNNING and the closure
\* allocates a fresh SystemStats.
BeginInit(t) ==
    /\ SYSTEM_MONITOR' = [state |-> "RUNNING", value |-> None]
    /\ heap' = heap @@ (next_id :> SystemStats_new)
    /\ next_id' = next_id + 1
    /\ callers' = [callers EXCEPT ![t] = [pc |-> "spawn", stats |-> next_id]]
    /\ UNCHANGED returned

\* get_or_init without the completion check: every call runs the closure
GetOrInitAlways(t) ==
    /\ IF SYSTEM_MONITOR.state = "RUNNING"
       THEN /\ callers' = [callers EXCEPT ![t] = [pc |-> "wait",
                                                  stats |-> None]]
            /\ UNCHANGED << SYSTEM_MONITOR, heap, next_id, returned >>
       ELSE BeginInit(t)
    /\ UNCHANGED << monitor, threads_spawned, spawn_failures, alive, ret >>

\* get_or_init as a check-then-act on "not yet COMPLETE": a call that
\* finds another thread's closure RUNNING runs its own closure as well
GetOrInitUnguarded(t) ==
    /\ IF SYSTEM_MONITOR.state = "COMPLETE"
       THEN /\ callers' = [callers EXCEPT ![t] = [pc |-> "idle",
                                                  stats |-> None]]
            /\ returned' = returned + 1
            /\ UNCHANGED << SYSTEM_MONITOR, heap, next_id >>
       ELSE BeginInit(t)
    /\ UNCHANGED << monitor, threads_spawned, spawn_failures, alive, ret >>

\* get_or_init: return when COMPLETE, wait while another thread's closure is
\* RUNNING, otherwise (INCOMPLETE, or POISONED by a panicked closure) run
\* the closure.
GetOrInit(t) ==
    /\ IF SYSTEM_MONITOR.state = "COMPLETE"
       THEN /\ callers' = [callers EXCEPT ![t] = [pc |-> "idle",
                                                  stats |-> None]]
            /\ returned' = returned + 1
            /\ UNCHANGED << SYSTEM_MONITOR, heap, next_id >>
       ELSE IF SYSTEM_MONITOR.state = "RUNNING"
       THEN /\ callers' = [callers EXCEPT ![t] = [pc |-> "wait",
                                                  stats |-> None]]
            /\ UNCHANGED << SYSTEM_MONITOR, heap, next_id, returned >>
       ELSE BeginInit(t)
    /\ UNCHANGED << monitor, threads_spawned, spawn_failures, alive, ret >>

\* a thread calls start_system_monitor()
start_system_monitor(t) ==
    /\ alive
    /\ callers[t].pc = "idle"
    /\ calls < MaxCalls
    /\ calls' = calls + 1
    /\ GetOrInit(t)

\* a thread blocked in get_or_init is woken when the closure has ended
WakeWaiter(t) ==
    /\ alive
    /\ callers[t].pc = "wait"
    /\ SYSTEM_MONITOR.state # "RUNNING"
    /\ UNCHANGED calls
    /\ GetOrInit(t)

\* thread::Builder::new().name(..).spawn(..) succeeds: the new thread owns
\* stats_clone and is about to run System::new_all()
SpawnThread(t) ==
    /\ alive
    /\ callers[t].pc = "spawn"
    /\ monitor' = [NoMonitor EXCEPT !.pc = "new_all",
                                    !.stats_clone = callers[t].stats]
    /\ threads_spawned' = threads_spawned + 1
    /\ callers' = [callers EXCEPT ![t].pc = "spawned"]
    /\ UNCHANGED << SYSTEM_MONITOR, heap, next_id, spawn_failures, calls,
                    returned, alive, ret >>

\* a failed spawn that leaves the handle set to the closure's SystemStats
SpawnFailedKeepsHandle(t) ==
    /\ alive
    /\ callers[t].pc = "spawn"
    /\ spawn_failures < MaxSpawnFailures
    /\ spawn_failures' = spawn_failures + 1
    /\ SYSTEM_MONITOR' = [state |-> "COMPLETE", value |-> callers[t].stats]
    /\ callers' = [callers EXCEPT ![t] = [pc |-> "panicked", stats |-> None]]
    /\ alive' \in BOOLEAN
    /\ UNCHANGED << heap, next_id, monitor, threads_spawned, calls, returned,
                    ret >>

\* spawn fails and .expect(..) panics: the closure's SystemStats is dropped,
\* the Once is left POISONED, the calling thread unwinds; whether the panic
\* ends the process depends on the panic strategy and on the thread.
SpawnFailed(t) ==
    /\ alive
    /\ callers[t].pc = "spawn"
    /\ spawn_failures < MaxSpawnFailures
    /\ spawn_failures' = spawn_failures + 1
    /\ SYSTEM_MONITOR' = [state |-> "POISONED", value |-> None]
    /\ heap' = [i \in DOMAIN heap \ {callers[t].stats} |-> heap[i]]
    /\ callers' = [callers EXCEPT ![t] = [pc |-> "panicked", stats |-> None]]
    /\ alive' \in BOOLEAN
    /\ UNCHANGED << next_id, monitor, threads_spawned, calls, returned, ret >>

\* a closure that returns a new SystemStats instead of the one whose clone
\* the thread owns
ReturnFreshStats(t) ==
    /\ alive
    /\ callers[t].pc = "spawned"
    /\ SYSTEM_MONITOR' = [state |-> "COMPLETE", value |-> next_id]
    /\ heap' = heap @@ (next_id :> SystemStats_new)
    /\ next_id' = next_id + 1
    /\ callers' = [callers EXCEPT ![t] = [pc |-> "idle", stats |-> None]]
    /\ returned' = returned + 1
    /\ UNCHANGED << monitor, threads_spawned, spawn_failures, calls, alive,
                    ret >>

\* the closure returns stats: the OnceLock takes the value and is COMPLETE,
\* and start_system_monitor() returns
ReturnStats(t) ==
    /\ alive
    /\ callers[t].pc = "spawned"
    /\ SYSTEM_MONITOR' = [state |-> "COMPLETE", value |-> callers[t].stats]
    /\ callers' = [callers EXCEPT ![t] = [pc |-> "idle", stats |-> None]]
    /\ returned' = returned + 1
    /\ UNCHANGED << heap, next_id, monitor, threads_spawned, spawn_failures,
                    calls, alive, ret >>

(***************************************************************************)
(* The "system-monitor" thread                                             *)
(***************************************************************************)
MonitorStep(from, to) ==
    /\ alive
    /\ monitor.pc = from
    /\ UNCHANGED << SYSTEM_MONITOR, next_id, callers, threads_spawned,
                    spawn_failures, calls, returned, alive >>

\* a store to the gauge that the last getter call read makes that reading
\* an old one
Outdated(fn) == IF ret.fn = fn THEN [ret EXCEPT !.fresh = FALSE] ELSE ret

\* let mut sys = System::new_all()
new_all(cpus, memories) ==
    /\ MonitorStep("new_all", "refresh_cpu_usage")
    /\ \E c \in cpus, m \in memories :
          monitor' = [monitor EXCEPT !.pc = "refresh_cpu_usage",
                         !.sys = [cpu |-> c, used |-> m[1], total |-> m[2]]]
    /\ UNCHANGED << heap, ret >>

\* sys.refresh_cpu_usage()
refresh_cpu_usage(cpus) ==
    /\ MonitorStep("refresh_cpu_usage", "refresh_memory")
    /\ \E c \in cpus :
          monitor' = [monitor EXCEPT !.pc = "refresh_memory", !.sys.cpu = c]
    /\ UNCHANGED << heap, ret >>

\* sys.refresh_memory()
refresh_memory(memories) ==
    /\ MonitorStep("refresh_memory", "store_cpu")
    /\ \E m \in memories :
          monitor' = [monitor EXCEPT !.pc = "store_cpu",
                         !.sys.used = m[1], !.sys.total = m[2]]
    /\ UNCHANGED << heap, ret >>

\* both gauges published in the step of the CPU store
store_both ==
    /\ MonitorStep("store_cpu", "store_memory")
    /\ LET scaled == cpu_scaled(monitor.sys.cpu)
           pct == memory_pct(monitor.sys.used, monitor.sys.total)
       IN  /\ heap' = [heap EXCEPT ![monitor.stats_clone] =
                          [cpu_usage |-> scaled, memory_usage |-> pct]]
           /\ monitor' = [monitor EXCEPT !.pc = "store_memory",
                                         !.cpu_scaled = scaled,
                                         !.memory_pct = pct]
    /\ ret' = [ret EXCEPT !.fresh = FALSE]

\* let cpu = sys.global_cpu_usage(); let cpu_scaled = (cpu * 100.0) as u32;
\* stats_clone.cpu_usage.store(cpu_scaled, Ordering::Relaxed)
store_cpu ==
    /\ MonitorStep("store_cpu", "store_memory")
    /\ LET scaled == cpu_scaled(monitor.sys.cpu)
       IN  /\ heap' = [heap EXCEPT ![monitor.stats_clone].cpu_usage =
                          AtomicStore(@, scaled)]
           /\ monitor' = [monitor EXCEPT !.pc = "store_memory",
                                         !.cpu_scaled = scaled]
    /\ ret' = Outdated("get_cpu_usage")

\* a loop without the sleep: the next iteration follows the memory store
store_memory_spin ==
    /\ MonitorStep("store_memory", "refresh_cpu_usage")
    /\ LET pct == memory_pct(monitor.sys.used, monitor.sys.total)
       IN  /\ heap' = [heap EXCEPT ![monitor.stats_clone].memory_usage =
                          AtomicStore(@, pct)]
           /\ monitor' = [monitor EXCEPT !.pc = "refresh_cpu_usage",
                                         !.memory_pct = pct]
    /\ ret' = Outdated("get_memory_usage")

\* let total_memory = ..; let used_memory = ..; let memory_pct = ..;
\* stats_clone.memory_usage.store(memory_pct, Ordering::Relaxed)
store_memory ==
    /\ MonitorStep("store_memory", "sleep")
    /\ LET pct == memory_pct(monitor.sys.used, monitor.sys.total)
       IN  /\ heap' = [heap EXCEPT ![monitor.stats_clone].memory_usage =
                          AtomicStore(@, pct)]
           /\ monitor' = [monitor EXCEPT !.pc = "sleep", !.memory_pct = pct]
    /\ ret' = Outdated("get_memory_usage")

\* a loop that ends after its first iteration
sleep_exit ==
    /\ MonitorStep("sleep", "exited")
    /\ monitor' = [monitor EXCEPT !.pc = "exited"]
    /\ UNCHANGED << heap, ret >>

\* thread::sleep(Duration::from_secs(1)), then the next iteration
sleep ==
    /\ MonitorStep("sleep", "refresh_cpu_usage")
    /\ monitor' = [monitor EXCEPT !.pc = "refresh_cpu_usage"]
    /\ UNCHANGED << heap, ret >>

(***************************************************************************)
(* The getters, called from any thread at any time                         *)
(***************************************************************************)
\* a getter that waits for the loop to be asleep, as under a lock the loop
\* holds while it samples
GetterLocked(fn, val) ==
    /\ alive
    /\ monitor.pc \in {"none", "sleep"}
    /\ ret' = [fn |-> fn, some |-> OnceLock_get # None, val |-> val,
               fresh |-> TRUE]
    /\ UNCHANGED << SYSTEM_MONITOR, heap, next_id, callers, monitor,
                    threads_spawned, spawn_failures, calls, returned, alive >>

\* a getter that starts the monitor when it finds no handle
GetterStarting(fn, val) ==
    /\ alive
    /\ ret' = [fn |-> fn, some |-> OnceLock_get # None, val |-> val,
               fresh |-> TRUE]
    /\ IF SYSTEM_MONITOR.state = "INCOMPLETE"
       THEN /\ SYSTEM_MONITOR' = [state |-> "COMPLETE", value |-> next_id]
            /\ heap' = heap @@ (next_id :> SystemStats_new)
            /\ next_id' = next_id + 1
            /\ monitor' = [NoMonitor EXCEPT !.pc = "new_all",
                                            !.stats_clone = next_id]
            /\ threads_spawned' = threads_spawned + 1
       ELSE UNCHANGED << SYSTEM_MONITOR, heap, next_id, monitor,
                         threads_spawned >>
    /\ UNCHANGED << callers, spawn_failures, calls, returned, alive >>

\* a getter that takes the gauge with swap(0) instead of load
GetterSwap(fn, val) ==
    /\ alive
    /\ ret' = [fn |-> fn, some |-> OnceLock_get # None, val |-> val,
               fresh |-> TRUE]
    /\ heap' = IF OnceLock_get = None THEN heap
               ELSE [heap EXCEPT ![OnceLock_get] = SystemStats_new]
    /\ UNCHANGED << SYSTEM_MONITOR, next_id, callers, monitor,
                    threads_spawned, spawn_failures, calls, returned, alive >>

Getter(fn, val) ==
    /\ alive
    /\ ret' = [fn |-> fn, some |-> OnceLock_get # None, val |-> val,
               fresh |-> TRUE]
    /\ UNCHANGED << SYSTEM_MONITOR, heap, next_id, callers, monitor,
                    threads_spawned, spawn_failures, calls, returned, alive >>

GetCpuUsage == Getter("get_cpu_usage", get_cpu_usage)

GetMemoryUsage == Getter("get_memory_usage", get_memory_usage)

(***************************************************************************)
(* Specifications                                                          *)
(***************************************************************************)
Start == \E t \in Callers : start_system_monitor(t)

Wake == \E t \in Callers : WakeWaiter(t)

Spawn == \E t \in Callers : SpawnThread(t)

SpawnFail == \E t \in Callers : SpawnFailed(t)

Return == \E t \in Callers : ReturnStats(t)

NewAll == new_all(CpuSamples, MemorySamples)

RefreshCpu == refresh_cpu_usage(CpuSamples)

RefreshMemory == refresh_memory(MemorySamples)

Next ==
    \/ Start
    \/ Wake
    \/ Spawn
    \/ SpawnFail
    \/ Return
    \/ NewAll
    \/ RefreshCpu
    \/ RefreshMemory
    \/ store_cpu
    \/ store_memory
    \/ sleep
    \/ GetCpuUsage
    \/ GetMemoryUsage

Spec == Init /\ [][Next]_vars

\* The spawned thread is scheduled again and again and every call it makes
\* (the probe's, the stores, the sleep) returns.  A store is enabled exactly
\* when the live loop stands before it and a store step moves the loop on,
\* so weak fairness of a store, []<>~ENABLED <<store>>_vars \/
\* []<><<store>>_vars, is that the loop does not stand before it forever.
Fairness ==
    /\ WF_vars(NewAll)
    /\ WF_vars(RefreshCpu)
    /\ WF_vars(RefreshMemory)
    /\ []<>~(alive /\ monitor.pc = "store_cpu")
    /\ []<>~(alive /\ monitor.pc = "store_memory")
    /\ WF_vars(sleep)

SpecFair == Spec /\ Fairness

\* One thread starts the monitor and the probe reports the wider readings.
StartProbe == start_system_monitor(1)

SpawnProbe == SpawnThread(1)

ReturnProbe == ReturnStats(1)

NewAllProbe == new_all(CpuSamplesWide, MemorySamplesWide)

RefreshCpuProbe == refresh_cpu_usage(CpuSamplesWide)

RefreshMemoryProbe == refresh_memory(MemorySamplesWide)

NextProbe ==
    \/ StartProbe
    \/ SpawnProbe
    \/ ReturnProbe
    \/ NewAllProbe
    \/ RefreshCpuProbe
    \/ RefreshMemoryProbe
    \/ store_cpu
    \/ store_memory
    \/ sleep

SpecProbe == Init /\ [][NextProbe]_vars

(***************************************************************************)
(* Properties                                                              *)
(***************************************************************************)
\* C1: however the calls of start_system_monitor() interleave, at most one
\* background thread is ever spawned, and exactly one has been spawned once
\* any call has returned.
C1_ExactlyOneLoop ==
    /\ threads_spawned <= 1
    /\ returned >= 1 => threads_spawned = 1

\* two calls have returned, one of them after waiting for or finding the
\* initialization done
C1_Witness == returned >= 2 /\ threads_spawned = 1


\* C2: once a call of start_system_monitor() has returned, every call begun
\* later returns at once, spawns no thread, allocates nothing, and leaves
\* the OnceLock, the gauges and the background thread as they are.
C2_Idempotent ==
    [][(returned >= 1 /\ calls' = calls + 1)
         => /\ returned' = returned + 1
            /\ UNCHANGED << SYSTEM_MONITOR, heap, next_id, monitor,
                            threads_spawned, spawn_failures >>]_vars

\* three calls have returned and there is still one thread
C2_Witness == returned >= 3 /\ threads_spawned = 1 /\ next_id = 2

\* C3: while start_system_monitor() has never been called, both getters
\* return exactly 0.0, and a call of either can be made.
C3_ZeroBeforeStart ==
    calls = 0 =>
        /\ get_cpu_usage = FloatZero
        /\ get_memory_usage = FloatZero
        /\ ret.fn # "none" => (ret.val = FloatZero /\ ~ret.some)
        /\ ENABLED GetCpuUsage
        /\ ENABLED GetMemoryUsage

\* a getter has returned before any start
C3_Witness == calls = 0 /\ ret.fn = "get_cpu_usage" /\ ret.fresh

\* the f64 1.0
F64_1 == FloatFromBig(F64Bits, << 1 >>)

\* -1, 0 or 1 as the finite float a >= 0 is below, equal to or above b >= 0
FloatCmp(a, b) ==
    LET lo == IF a.e < b.e THEN a.e ELSE b.e
    IN  BigCmp(BigShl(a.m, a.e - lo), BigShl(b.m, b.e - lo))

\* a finite float in [0.0, 1.0]
InUnitRange(x) == ~x.nan /\ ~x.neg /\ FloatCmp(x, F64_1) <= 0

\* C4: in every reachable state, whatever the probe reports, both gauges are
\* in 0..10000 and both getters return a value in [0.0, 1.0].
C4_GaugesInRange ==
    /\ \A id \in DOMAIN heap :
          /\ heap[id].cpu_usage \in 0..10000
          /\ heap[id].memory_usage \in 0..10000
    /\ InUnitRange(get_cpu_usage)
    /\ InUnitRange(get_memory_usage)

\* C5: after a call of start_system_monitor() has returned, a getter returns
\* the value the loop last stored into its gauge (0 before the first store),
\* converted to f64 and divided by 10000.0.
C5_LatestPublished ==
    [][returned >= 1
         => /\ GetCpuUsage => ret'.val = usage(monitor.cpu_scaled)
            /\ GetMemoryUsage => ret'.val = usage(monitor.memory_pct)]_vars

\* a read after the start returned 4567 / 10000, the value last stored
C5_Witness ==
    /\ returned >= 1
    /\ ret.fn = "get_cpu_usage"
    /\ ret.fresh
    /\ monitor.cpu_scaled = 4567
    /\ ret.val = usage(4567)

\* the gauges the background thread stores to
LoopGauges == heap[monitor.stats_clone]

\* the reading in monitor.sys.cpu has been scaled and stored
AfterCpuStore == monitor.pc \in {"store_memory", "sleep"}

\* the readings in monitor.sys.used and .total have been scaled and stored
AfterMemoryStore == monitor.pc = "sleep"

\* a finite reading in [0.0, 100.0]
InPercentRange(c) == ~c.nan /\ ~c.neg /\ FloatCmp(c, F32_100) <= 0

\* floor(c * 100) in exact arithmetic, for a finite float c >= 0
ExactFloor100(c) ==
    IF c.e >= 0 THEN BigToInt(BigShl(BigMulSmall(c.m, 100), c.e))
    ELSE BigToInt(BigShr(BigMulSmall(c.m, 100), 0 - c.e))

\* decimal readings k / 100 percent in [0.00, 100.00]
CpuHundredths == {0, 53, 4567, 10000}

\* C6 as stated: a reading of k / 100 percent publishes the CPU gauge k.
C6_ExactTruncation ==
    AfterCpuStore =>
        \A k \in CpuHundredths :
            monitor.sys.cpu = F32Percent(k) => LoopGauges.cpu_usage = k

\* C6: for a reading c in [0.0, 100.0] one iteration publishes the integer
\* part of the f32 product c * 100.0, which is floor(100 c) or, the product
\* being rounded, floor(100 c) + 1, and at most 10000; the f32 nearest to
\* 45.67 publishes 4567 (get_cpu_usage() = 4567 / 10000) and 100.0
\* publishes 10000 (get_cpu_usage() = 1.0).
C6_RoundedTruncation ==
    (AfterCpuStore /\ InPercentRange(monitor.sys.cpu)) =>
        LET c == monitor.sys.cpu
            g == LoopGauges.cpu_usage
        IN  /\ g \in {ExactFloor100(c), ExactFloor100(c) + 1}
            /\ g <= 10000
            /\ c = F32Percent(4567) =>
                  /\ g = 4567
                  /\ OnceLock_get # None =>
                        get_cpu_usage = FloatFromRatio(F64Bits, << 4567 >>,
                                                       << 10000 >>, 0, FALSE)
            /\ c = F32Percent(10000) =>
                  /\ g = 10000
                  /\ OnceLock_get # None => get_cpu_usage = F64_1

\* a reading of 45.67 % has been published as 4567, in an iteration after
\* one that published a full memory, and is visible to the getters
C6_Witness ==
    /\ monitor.pc = "store_memory"
    /\ monitor.sys.cpu = F32Percent(4567)
    /\ LoopGauges.cpu_usage = 4567
    /\ OnceLock_get # None
    /\ LoopGauges.memory_usage = 10000

\* floor(used * 10000 / total) in exact arithmetic, for total > 0
ExactFloorRatio(used, total) ==
    BigToInt(BigDivMod(BigMulSmall(used, 10000), total)[1])

F64_Half == FloatFromRatio(F64Bits, << 1 >>, << 2 >>, 0, FALSE)

C8_UnknownTotal ==
    (AfterMemoryStore /\ Len(monitor.sys.total) = 0) =>
        /\ LoopGauges.memory_usage = 0
        /\ get_memory_usage = FloatZero
        /\ alive => ENABLED sleep

\* a total of 0 with 5 bytes used has been published over a memory gauge
\* that a getter had returned as non-zero
C8_Witness ==
    /\ AfterMemoryStore
    /\ Len(monitor.sys.total) = 0
    /\ Len(monitor.sys.used) > 0
    /\ LoopGauges.memory_usage = 0
    /\ ret.fn = "get_memory_usage"
    /\ ret.val # FloatZero
    /\ ~ret.fresh

\* a step of the background thread that stores to a gauge
LoopStores ==
    monitor.pc \in {"store_cpu", "store_memory"} /\ monitor'.pc # monitor.pc

\* every step but the loop's stores leaves the gauges of every object as
\* they are
GaugesFrame ==
    ~LoopStores =>
        \A id \in DOMAIN heap \cap DOMAIN heap' : heap'[id] = heap[id]

\* a getter is called again, no store to its gauge having followed its
\* last call
ReadsAgain ==
    \/ GetCpuUsage /\ ret.fn = "get_cpu_usage" /\ ret.fresh
    \/ GetMemoryUsage /\ ret.fn = "get_memory_usage" /\ ret.fresh

\* C9 as stated: only the loop writes the gauges, and two reads of a gauge
\* with no publication between them return the same value.
C9_StableReads ==
    [][GaugesFrame /\ (ReadsAgain => ret'.val = ret.val)]_vars

\* C9: only the loop writes the gauges, and two reads of a gauge with no
\* publication between them return the same value when SYSTEM_MONITOR.get()
\* gives both the same answer, as it does once a start has returned.
C9_StableReadsSameHandle ==
    [][/\ GaugesFrame
       /\ (ReadsAgain /\ ret.some = (OnceLock_get # None))
             => ret'.val = ret.val
       /\ (ReadsAgain /\ returned >= 1 /\ ret.some) => ret'.val = ret.val]_vars

\* a getter returned a published non-zero value, and the loop has not
\* stored to that gauge since
C9_Witness ==
    /\ ret.fn = "get_cpu_usage"
    /\ ret.fresh
    /\ ret.some
    /\ ret.val # FloatZero
    /\ monitor.pc = "store_cpu"
    /\ returned >= 2

\* C10: a gauge always holds, whole, the value the loop last computed for
\* it (0 before the first store), and a getter returns 0.0 or that value
\* converted, whether called before or after a store.
C10_NoTearing ==
    [][/\ monitor'.pc # "none" =>
             heap'[monitor'.stats_clone] =
                 [cpu_usage |-> monitor'.cpu_scaled,
                  memory_usage |-> monitor'.memory_pct]
       /\ GetCpuUsage =>
             ret'.val \in {FloatZero, usage(monitor.cpu_scaled)}
       /\ GetMemoryUsage =>
             ret'.val \in {FloatZero, usage(monitor.memory_pct)}]_vars

\* a getter returned the old value while the loop is about to store
\* another one
C10_Witness ==
    /\ monitor.pc = "store_cpu"
    /\ ret.fn = "get_cpu_usage"
    /\ ret.fresh
    /\ ret.val = usage(monitor.cpu_scaled)
    /\ monitor.cpu_scaled # 0
    /\ cpu_scaled(monitor.sys.cpu) # monitor.cpu_scaled

\* C11: the CPU store and the memory store of an iteration are two steps,
\* the CPU store first: no step changes both gauges, and between the two
\* stores the CPU gauge holds this iteration's value while the memory gauge
\* still holds what it held before.
C11_SeparateStores ==
    [][(monitor.pc # "none" /\ monitor'.pc # "none") =>
          LET old == heap[monitor.stats_clone]
              new == heap'[monitor'.stats_clone]
          IN  /\ ~(new.cpu_usage # old.cpu_usage
                   /\ new.memory_usage # old.memory_usage)
              /\ (monitor.pc = "store_cpu" /\ monitor'.pc = "store_memory") =>
                    /\ new.memory_usage = old.memory_usage
                    /\ new.memory_usage = monitor'.memory_pct
                    /\ new.cpu_usage = cpu_scaled(monitor.sys.cpu)]_vars

\* a getter has returned this iteration's CPU value, 4567, while the memory
\* gauge still holds 5000 of an earlier iteration and this iteration's
\* memory value, not yet stored, is 0
C11_Witness ==
    /\ monitor.pc = "store_memory"
    /\ OnceLock_get # None
    /\ LoopGauges.cpu_usage = 4567
    /\ LoopGauges.memory_usage = 5000
    /\ Len(monitor.sys.total) = 0
    /\ ret.fn = "get_cpu_usage"
    /\ ret.fresh
    /\ ret.val = usage(4567)

\* C12: while the process lives a getter can be called in every state,
\* wherever the loop is (sleeping, inside a probe call, between its two
\* stores); the call is one step, leaves the loop where it is and returns
\* the gauge as it stands.
C12_ReadersNeverBlock ==
    [][/\ alive => \A fn \in {"get_cpu_usage", "get_memory_usage"} :
                      ENABLED Getter(fn, FloatZero)
       /\ (GetCpuUsage \/ GetMemoryUsage) => monitor' = monitor
       /\ (GetCpuUsage /\ OnceLock_get # None) =>
             ret'.val = usage(LoopGauges.cpu_usage)
       /\ (GetMemoryUsage /\ OnceLock_get # None) =>
             ret'.val = usage(LoopGauges.memory_usage)]_vars

\* a getter has returned the memory gauge 5000 while the loop is inside
\* sys.refresh_memory()
C12_Witness ==
    /\ monitor.pc = "refresh_memory"
    /\ ret.fn = "get_memory_usage"
    /\ ret.fresh
    /\ ret.some
    /\ ret.val = F64_Half

\* C13: the spawned loop has no exit: once the thread exists it exists in
\* every later state, and when it is scheduled fairly and its calls return,
\* from every state in which it exists it again comes to stand right after
\* a CPU store and right after a memory store, so both gauges are published
\* after the start and infinitely often.
C13_LoopRunsForever ==
    /\ [][monitor.pc # "none" =>
             monitor'.pc \in {"new_all", "refresh_cpu_usage",
                              "refresh_memory", "store_cpu", "store_memory",
                              "sleep"}]_vars
    /\ (monitor.pc # "none") ~> (monitor.pc = "store_memory")
    /\ (monitor.pc # "none") ~> (monitor.pc = "sleep")

\* the loop is in a later iteration: it is about to store the CPU gauge
\* again after both gauges have been stored once
C13_Witness ==
    /\ monitor.pc = "store_cpu"
    /\ monitor.cpu_scaled = 4567
    /\ monitor.memory_pct = 5000
    /\ LoopGauges = [cpu_usage |-> 4567, memory_usage |-> 5000]

\* C14: a failed thread creation is fatal: the step in which spawn fails
\* ends the process, and after a failure no call comes to attempt the spawn
\* again.
C14_SpawnFailureFatal ==
    [][/\ spawn_failures' > spawn_failures => ~alive'
       /\ spawn_failures >= 1 =>
             \A t \in Callers :
                 callers'[t].pc = "spawn" => callers[t].pc = "spawn"]_vars

\* the order of the loop's positions: System::new_all() once, then refresh
\* CPU, refresh memory, store CPU, store memory, sleep, and round again
LoopOrder ==
    { << "none", "new_all" >>,
      << "new_all", "refresh_cpu_usage" >>,
      << "refresh_cpu_usage", "refresh_memory" >>,
      << "refresh_memory", "store_cpu" >>,
      << "store_cpu", "store_memory" >>,
      << "store_memory", "sleep" >>,
      << "sleep", "refresh_cpu_usage" >> }

\* C15: the loop moves only along refresh CPU, refresh memory, publish CPU,
\* publish memory, sleep: the CPU reading changes only in the CPU refresh,
\* the memory figures only in the memory refresh, the CPU gauge only in the
\* CPU store and the memory gauge only in the memory store; the sleep is
\* entered only from the memory store, so the first publication has no
\* sleep before it, and the sleep step changes nothing but the position.
C15_IterationOrder ==
    [][/\ monitor'.pc # monitor.pc =>
             << monitor.pc, monitor'.pc >> \in LoopOrder
       /\ (monitor.pc # "none" /\ monitor'.pc # "none") =>
             LET old == heap[monitor.stats_clone]
                 new == heap'[monitor'.stats_clone]
             IN  /\ monitor'.sys.cpu # monitor.sys.cpu =>
                       monitor.pc \in {"new_all", "refresh_cpu_usage"}
                 /\ (\/ monitor'.sys.used # monitor.sys.used
                     \/ monitor'.sys.total # monitor.sys.total) =>
                       monitor.pc \in {"new_all", "refresh_memory"}
                 /\ new.cpu_usage # old.cpu_usage =>
                       monitor.pc = "store_cpu"
                 /\ new.memory_usage # old.memory_usage =>
                       monitor.pc = "store_memory"
                 /\ (monitor.pc = "sleep" /\ monitor'.pc # "sleep") =>
                       /\ new = old
                       /\ monitor' = [monitor EXCEPT
                                          !.pc = "refresh_cpu_usage"]]_vars

\* the first iteration has published both gauges and the loop is in its
\* first sleep, before any getter was called
C15_Witness ==
    /\ monitor.pc = "sleep"
    /\ LoopGauges.cpu_usage = 10000
    /\ LoopGauges.memory_usage = 5000
    /\ ret.fn = "none"

\* C16: a getter call neither initializes the handle nor spawns the loop:
\* it leaves the handle, the threads and the gauges as they are, and while
\* start_system_monitor() has not been called there is no handle and no
\* thread, however often the getters were called.
C16_GettersNeverStart ==
    [][/\ (GetCpuUsage \/ GetMemoryUsage) =>
             UNCHANGED << SYSTEM_MONITOR, heap, next_id, callers, monitor,
                          threads_spawned, calls >>
       /\ calls' = 0 =>
             /\ SYSTEM_MONITOR' = OnceLock_new
             /\ threads_spawned' = 0
             /\ monitor' = NoMonitor
             /\ heap' = << >>]_vars

\* get_memory_usage() has been called and returned 0.0 and nothing was
\* started
C16_Witness ==
    /\ calls = 0
    /\ ret.fn = "get_memory_usage"
    /\ ret.fresh
    /\ ~ret.some
    /\ ret.val = FloatZero
    /\ SYSTEM_MONITOR = OnceLock_new
    /\ threads_spawned = 0

\* C17: a step in which a start_system_monitor() call returns ends with the
\* handle initialized and the one loop spawned; an initialized handle is
\* never changed again; and the SystemStats the handle leads to is the one
\* whose clone the loop stores to.
C17_StartedOnReturn ==
    [][/\ returned' > returned =>
             /\ SYSTEM_MONITOR'.state = "COMPLETE"
             /\ threads_spawned' = 1
             /\ monitor'.pc # "none"
       /\ SYSTEM_MONITOR.state = "COMPLETE" =>
             SYSTEM_MONITOR' = SYSTEM_MONITOR
       /\ SYSTEM_MONITOR'.state = "COMPLETE" =>
             /\ SYSTEM_MONITOR'.value \in DOMAIN heap'
             /\ SYSTEM_MONITOR'.value = monitor'.stats_clone]_vars

\* two calls, the initializing one and another, have both returned while
\* the loop has not yet made its first refresh
C17_Witness ==
    /\ returned = 2
    /\ calls = 2
    /\ \A t \in Callers : callers[t].pc = "idle"
    /\ SYSTEM_MONITOR.state = "COMPLETE"
    /\ monitor.pc = "new_all"
    /\ spawn_failures = 0

\* C18: the handle is visible only after the spawn succeeded: a visible
\* handle means exactly one loop exists, and while no handle is visible both
\* getters return 0.0, also when the loop has already stored a gauge.
C18_HandleAfterSpawn ==
    /\ SYSTEM_MONITOR.state = "COMPLETE" =>
          /\ threads_spawned = 1
          /\ monitor.pc # "none"
          /\ monitor.stats_clone = SYSTEM_MONITOR.value
    /\ OnceLock_get = None =>
          /\ get_cpu_usage = FloatZero
          /\ get_memory_usage = FloatZero
          /\ (ret.fresh => ret.val = FloatZero)

\* the loop has stored a CPU gauge other than 0 while the closure has not
\* returned, and get_cpu_usage() has just returned 0.0
C18_Witness ==
    /\ SYSTEM_MONITOR.state = "RUNNING"
    /\ monitor.pc = "store_memory"
    /\ LoopGauges.cpu_usage = 4567
    /\ ret.fn = "get_cpu_usage"
    /\ ret.fresh
    /\ ret.val = FloatZero

\* C19: the step in which the spawn fails leaves no handle and no loop, as
\* before the call, and both getters return 0.0 after it.
C19_FailedSpawnLeavesNothing ==
    [][spawn_failures' > spawn_failures =>
          /\ OnceLock_get = None
          /\ SYSTEM_MONITOR'.state # "COMPLETE"
          /\ SYSTEM_MONITOR'.value = None
          /\ threads_spawned' = threads_spawned
          /\ threads_spawned' = 0
          /\ monitor' = NoMonitor
          /\ heap' = << >>
          /\ ret' = ret]_vars

\* after a failed spawn that the process survived, get_cpu_usage() has
\* returned 0.0 and there is no thread
C19_Witness ==
    /\ spawn_failures = 1
    /\ alive
    /\ SYSTEM_MONITOR.state = "POISONED"
    /\ threads_spawned = 0
    /\ ret.fn = "get_cpu_usage"
    /\ ret.fresh
    /\ ~ret.some
    /\ ret.val = FloatZero

====
